---- MODULE Spec2Model ----
(***************************************************************************)
(* Model of the casting/validation layer of bytemuck (src/src/lib.rs).     *)
(*                                                                         *)
(* Every function of the layer is a pure function of the two type          *)
(* descriptors (size_of, align_of), of the address of the input reference  *)
(* or slice, and of the slice length.  One call is one behaviour: Init     *)
(* draws the type parameters and the input, an action applies one entry    *)
(* point and records its outcome in res.  The round-trip actions apply the *)
(* reverse reference cast to the reference a successful cast returned.     *)
(***************************************************************************)
EXTENDS Integers, FiniteSets

\* ---------------------------------------------------------------- bounds
\* alignments are 2^0 .. 2^MaxAlignLog
MaxAlignLog == 3
\* sizes are 0 .. MaxSize (multiples of the type's alignment)
MaxSize == 8
\* addresses are 0 .. MaxAddr
MaxAddr == 8
\* slice lengths are 0 .. MaxLen
MaxLen == 8

RECURSIVE Pow2(_)
Pow2(k) == IF k = 0 THEN 1 ELSE 2 * Pow2(k - 1)

Aligns == { Pow2(k) : k \in 0..MaxAlignLog }

\* A type descriptor: Rust sizes are multiples of the (power of two) alignment.
Types == { t \in [size : 0..MaxSize, align : Aligns] : t.size % t.align = 0 }

\* a reference is never null
Addrs == 1..MaxAddr

Lens == 0..MaxLen

size_of(T) == T.size

align_of(T) == T.align

\* the byte type
U8 == [size |-> 1, align |-> 1]

\* ------------------------------------------------------------- outcomes
\* enum PodCastError
TargetAlignmentGreaterAndInputNotAligned == "TargetAlignmentGreaterAndInputNotAligned"

OutputSliceWouldHaveSlop == "OutputSliceWouldHaveSlop"

SizeMismatch == "SizeMismatch"

AlignmentMismatch == "AlignmentMismatch"

PodCastError ==
  { TargetAlignmentGreaterAndInputNotAligned, OutputSliceWouldHaveSlop,
    SizeMismatch, AlignmentMismatch }

\* Result::Ok of a re-viewed reference or slice: start address and element count
Ok(p, n) == [kind |-> "Ok", addr |-> p, len |-> n, err |-> "none", src |-> "none"]

\* Result::Err
Err(e) == [kind |-> "Err", addr |-> 0, len |-> 0, err |-> e, src |-> "none"]

\* something_went_wrong(src, err): the call never returns
something_went_wrong(s, e) ==
  [kind |-> "Panic", addr |-> 0, len |-> 0, err |-> e, src |-> s]

\* unreachable!()
Unreachable ==
  [kind |-> "Unreachable", addr |-> 0, len |-> 0, err |-> "none", src |-> "none"]

NoResult ==
  [kind |-> "none", addr |-> 0, len |-> 0, err |-> "none", src |-> "none"]

\* core::mem::size_of_val(a) of a slice of n elements of T.  A Rust slice
\* spans at most isize::MAX bytes, so the product never wraps.
size_of_val(T, n) == n * size_of(T)

\* A, B: the type parameters of the call; addr, len: the input reference or
\* slice; op: the entry point called; res: its outcome; back: the outcome of
\* the reverse reference cast applied to a successful res.
VARIABLES A, B, addr, len, op, res, back

vars == <<A, B, addr, len, op, res, back>>


\* ------------------------------------------------- structured variants
\* fn try_cast<A, B>(a: A) -> Result<B, PodCastError>: the output is a fresh
\* value, recorded as one element with no address.
try_cast(TA, TB) ==
  IF size_of(TA) = size_of(TB) THEN Ok(0, 1) ELSE Err(SizeMismatch)

\* fn try_cast_ref<A, B>(a: &A) -> Result<&B, PodCastError>, a at address p
\* variant: as try_cast_ref, with the size test accepting a smaller target
try_cast_ref_shrinks(TA, TB, p) ==
  IF align_of(TB) > align_of(TA) /\ p % align_of(TB) # 0
    THEN Err(TargetAlignmentGreaterAndInputNotAligned)
  ELSE IF size_of(TB) <= size_of(TA)
    THEN Ok(p, 1)
  ELSE Err(SizeMismatch)

try_cast_ref(TA, TB, p) ==
  IF align_of(TB) > align_of(TA) /\ p % align_of(TB) # 0
    THEN Err(TargetAlignmentGreaterAndInputNotAligned)
  ELSE IF size_of(TB) = size_of(TA)
    THEN Ok(p, 1)
  ELSE Err(SizeMismatch)

\* fn try_cast_mut<A, B>(a: &mut A) -> Result<&mut B, PodCastError>
\* variant: as try_cast_mut, with the size test before the alignment test
try_cast_mut_size_first(TA, TB, p) ==
  IF size_of(TB) # size_of(TA)
    THEN Err(SizeMismatch)
  ELSE IF align_of(TB) > align_of(TA) /\ p % align_of(TB) # 0
    THEN Err(TargetAlignmentGreaterAndInputNotAligned)
  ELSE Ok(p, 1)

try_cast_mut(TA, TB, p) ==
  IF align_of(TB) > align_of(TA) /\ p % align_of(TB) # 0
    THEN Err(TargetAlignmentGreaterAndInputNotAligned)
  ELSE IF size_of(TB) = size_of(TA)
    THEN Ok(p, 1)
  ELSE Err(SizeMismatch)

\* fn try_cast_slice<A, B>(a: &[A]) -> Result<&[B], PodCastError>,
\* a of n elements starting at address p
\* variant: as try_cast_slice, without the remainder test
try_cast_slice_truncates(TA, TB, p, n) ==
  IF align_of(TB) > align_of(TA) /\ p % align_of(TB) # 0
    THEN Err(TargetAlignmentGreaterAndInputNotAligned)
  ELSE IF size_of(TB) = size_of(TA)
    THEN Ok(p, n)
  ELSE IF size_of(TA) = 0 \/ size_of(TB) = 0
    THEN Err(SizeMismatch)
  ELSE Ok(p, size_of_val(TA, n) \div size_of(TB))

\* variant: as try_cast_slice, with the zero-sized test on the target only
try_cast_slice_zst_source(TA, TB, p, n) ==
  IF align_of(TB) > align_of(TA) /\ p % align_of(TB) # 0
    THEN Err(TargetAlignmentGreaterAndInputNotAligned)
  ELSE IF size_of(TB) = size_of(TA)
    THEN Ok(p, n)
  ELSE IF size_of(TB) = 0
    THEN Err(SizeMismatch)
  ELSE IF size_of_val(TA, n) % size_of(TB) = 0
    THEN Ok(p, size_of_val(TA, n) \div size_of(TB))
  ELSE Err(OutputSliceWouldHaveSlop)

try_cast_slice(TA, TB, p, n) ==
  IF align_of(TB) > align_of(TA) /\ p % align_of(TB) # 0
    THEN Err(TargetAlignmentGreaterAndInputNotAligned)
  ELSE IF size_of(TB) = size_of(TA)
    THEN Ok(p, n)
  ELSE IF size_of(TA) = 0 \/ size_of(TB) = 0
    THEN Err(SizeMismatch)
  ELSE IF size_of_val(TA, n) % size_of(TB) = 0
    THEN LET new_len == size_of_val(TA, n) \div size_of(TB) IN Ok(p, new_len)
  ELSE Err(OutputSliceWouldHaveSlop)

\* fn try_cast_slice_mut<A, B>(a: &mut [A]) -> Result<&mut [B], PodCastError>
\* variant: as try_cast_slice_mut, with the alignment test last
try_cast_slice_mut_slop_first(TA, TB, p, n) ==
  IF size_of(TB) = size_of(TA) /\ ~(align_of(TB) > align_of(TA) /\ p % align_of(TB) # 0)
    THEN Ok(p, n)
  ELSE IF size_of(TA) = 0 \/ size_of(TB) = 0
    THEN Err(SizeMismatch)
  ELSE IF size_of_val(TA, n) % size_of(TB) # 0
    THEN Err(OutputSliceWouldHaveSlop)
  ELSE IF align_of(TB) > align_of(TA) /\ p % align_of(TB) # 0
    THEN Err(TargetAlignmentGreaterAndInputNotAligned)
  ELSE Ok(p, size_of_val(TA, n) \div size_of(TB))

\* variant: as try_cast_slice_mut, with the address tested against align_of(A)
try_cast_slice_mut_source_align(TA, TB, p, n) ==
  IF align_of(TB) > align_of(TA) /\ p % align_of(TA) # 0
    THEN Err(TargetAlignmentGreaterAndInputNotAligned)
  ELSE IF size_of(TB) = size_of(TA)
    THEN Ok(p, n)
  ELSE IF size_of(TA) = 0 \/ size_of(TB) = 0
    THEN Err(SizeMismatch)
  ELSE IF size_of_val(TA, n) % size_of(TB) = 0
    THEN Ok(p, size_of_val(TA, n) \div size_of(TB))
  ELSE Err(OutputSliceWouldHaveSlop)

try_cast_slice_mut(TA, TB, p, n) ==
  IF align_of(TB) > align_of(TA) /\ p % align_of(TB) # 0
    THEN Err(TargetAlignmentGreaterAndInputNotAligned)
  ELSE IF size_of(TB) = size_of(TA)
    THEN Ok(p, n)
  ELSE IF size_of(TA) = 0 \/ size_of(TB) = 0
    THEN Err(SizeMismatch)
  ELSE IF size_of_val(TA, n) % size_of(TB) = 0
    THEN LET new_len == size_of_val(TA, n) \div size_of(TB) IN Ok(p, new_len)
  ELSE Err(OutputSliceWouldHaveSlop)

\* fn try_from_bytes<T>(s: &[u8]) -> Result<&T, PodCastError>,
\* s of n bytes starting at address p
\* variant: as try_from_bytes, with the alignment test before the length test
try_from_bytes_align_first(T, p, n) ==
  IF p % align_of(T) # 0
    THEN Err(TargetAlignmentGreaterAndInputNotAligned)
  ELSE IF n # size_of(T)
    THEN Err(SizeMismatch)
  ELSE Ok(p, 1)

try_from_bytes(T, p, n) ==
  IF n # size_of(T)
    THEN Err(SizeMismatch)
  ELSE IF p % align_of(T) # 0
    THEN Err(TargetAlignmentGreaterAndInputNotAligned)
  ELSE Ok(p, 1)

\* fn try_from_bytes_mut<T>(s: &mut [u8]) -> Result<&mut T, PodCastError>
\* variant: as try_from_bytes_mut, accepting a longer slice
try_from_bytes_mut_prefix(T, p, n) ==
  IF n < size_of(T)
    THEN Err(SizeMismatch)
  ELSE IF p % align_of(T) # 0
    THEN Err(TargetAlignmentGreaterAndInputNotAligned)
  ELSE Ok(p, 1)

try_from_bytes_mut(T, p, n) ==
  IF n # size_of(T)
    THEN Err(SizeMismatch)
  ELSE IF p % align_of(T) # 0
    THEN Err(TargetAlignmentGreaterAndInputNotAligned)
  ELSE Ok(p, 1)

\* ------------------------------------------------------ fatal variants
\* fn cast<A, B>(a: A) -> B
cast(TA, TB) ==
  IF size_of(TA) = size_of(TB)
    THEN Ok(0, 1)
  ELSE something_went_wrong("cast", SizeMismatch)

\* fn cast_mut<A, B>(a: &mut A) -> &mut B
cast_mut(TA, TB, p) ==
  IF size_of(TA) = size_of(TB) /\ align_of(TA) >= align_of(TB)
    THEN LET r == try_cast_mut(TA, TB, p)
         IN IF r.kind = "Ok" THEN r ELSE Unreachable
  ELSE LET r == try_cast_mut(TA, TB, p)
       IN IF r.kind = "Ok" THEN r ELSE something_went_wrong("cast_mut", r.err)

\* fn cast_ref<A, B>(a: &A) -> &B
\* variant: as cast_ref, with the first branch chosen on the alignments alone
cast_ref_align_only(TA, TB, p) ==
  IF align_of(TA) >= align_of(TB)
    THEN LET r == try_cast_ref(TA, TB, p)
         IN IF r.kind = "Ok" THEN r ELSE Unreachable
  ELSE LET r == try_cast_ref(TA, TB, p)
       IN IF r.kind = "Ok" THEN r ELSE something_went_wrong("cast_ref", r.err)

cast_ref(TA, TB, p) ==
  IF size_of(TA) = size_of(TB) /\ align_of(TA) >= align_of(TB)
    THEN LET r == try_cast_ref(TA, TB, p)
         IN IF r.kind = "Ok" THEN r ELSE Unreachable
  ELSE LET r == try_cast_ref(TA, TB, p)
       IN IF r.kind = "Ok" THEN r ELSE something_went_wrong("cast_ref", r.err)

\* fn cast_slice<A, B>(a: &[A]) -> &[B]
cast_slice(TA, TB, p, n) ==
  LET r == try_cast_slice(TA, TB, p, n)
  IN IF r.kind = "Ok" THEN r ELSE something_went_wrong("cast_slice", r.err)

\* fn cast_slice_mut<A, B>(a: &mut [A]) -> &mut [B]
cast_slice_mut(TA, TB, p, n) ==
  LET r == try_cast_slice_mut(TA, TB, p, n)
  IN IF r.kind = "Ok" THEN r ELSE something_went_wrong("cast_slice_mut", r.err)

\* fn from_bytes<T>(s: &[u8]) -> &T
from_bytes(T, p, n) ==
  LET r == try_from_bytes(T, p, n)
  IN IF r.kind = "Ok" THEN r ELSE something_went_wrong("from_bytes", r.err)

\* fn from_bytes_mut<T>(s: &mut [u8]) -> &mut T
from_bytes_mut(T, p, n) ==
  LET r == try_from_bytes_mut(T, p, n)
  IN IF r.kind = "Ok" THEN r ELSE something_went_wrong("from_bytes_mut", r.err)

\* ---------------------------------------------------- byte-view helpers
\* fn bytes_of<T>(t: &T) -> &[u8], t at address p: the set of possible
\* outcomes.  For a zero-sized T the result is the empty slice &[], whose
\* pointer is whatever the build gives the promoted constant.
\* variant: as bytes_of, without the zero-sized branch
bytes_of_always_delegates(T, p) ==
  LET r == try_cast_slice(T, U8, p, 1)
  IN { IF r.kind = "Ok" THEN r ELSE Unreachable }

bytes_of(T, p) ==
  IF size_of(T) = 0
    THEN { Ok(q, 0) : q \in Addrs }
  ELSE LET r == try_cast_slice(T, U8, p, 1)
       IN { IF r.kind = "Ok" THEN r ELSE Unreachable }

\* fn bytes_of_mut<T>(t: &mut T) -> &mut [u8]
bytes_of_mut(T, p) ==
  IF size_of(T) = 0
    THEN { Ok(q, 0) : q \in Addrs }
  ELSE LET r == try_cast_slice_mut(T, U8, p, 1)
       IN { IF r.kind = "Ok" THEN r ELSE Unreachable }

\* ------------------------------------------------------------- machine
\* One call: type parameters A and B, and an input reference or slice of A
\* (a reference is a region of one element), aligned for A as every Rust
\* reference is.
Init ==
  /\ A \in Types
  /\ B \in Types
  /\ addr \in { p \in Addrs : p % align_of(A) = 0 }
  /\ len \in Lens
  /\ op = "none"
  /\ res = NoResult
  /\ back = NoResult

Return(name, r) ==
  /\ op = "none"
  /\ op' = name
  /\ res' = r
  /\ UNCHANGED <<A, B, addr, len, back>>

TryCast == len = 1 /\ Return("try_cast", try_cast(A, B))

Cast == len = 1 /\ Return("cast", cast(A, B))

TryCastRef == len = 1 /\ Return("try_cast_ref", try_cast_ref(A, B, addr))

TryCastMut == len = 1 /\ Return("try_cast_mut", try_cast_mut(A, B, addr))

CastRef == len = 1 /\ Return("cast_ref", cast_ref(A, B, addr))

CastMut == len = 1 /\ Return("cast_mut", cast_mut(A, B, addr))

TryCastSlice == len \in Lens /\ Return("try_cast_slice", try_cast_slice(A, B, addr, len))

TryCastSliceMut == len \in Lens /\ Return("try_cast_slice_mut", try_cast_slice_mut(A, B, addr, len))

CastSlice == len \in Lens /\ Return("cast_slice", cast_slice(A, B, addr, len))

CastSliceMut == len \in Lens /\ Return("cast_slice_mut", cast_slice_mut(A, B, addr, len))

\* the from-bytes entry points take a slice of u8 and produce a reference to B
TryFromBytes == A = U8 /\ Return("try_from_bytes", try_from_bytes(B, addr, len))

TryFromBytesMut == A = U8 /\ Return("try_from_bytes_mut", try_from_bytes_mut(B, addr, len))

FromBytes == A = U8 /\ Return("from_bytes", from_bytes(B, addr, len))

FromBytesMut == A = U8 /\ Return("from_bytes_mut", from_bytes_mut(B, addr, len))

\* the byte views take a reference to A and produce a slice of u8
BytesOf ==
  /\ len = 1
  /\ B = U8
  /\ \E r \in bytes_of(A, addr) : Return("bytes_of", r)

BytesOfMut ==
  /\ len = 1
  /\ B = U8
  /\ \E r \in bytes_of_mut(A, addr) : Return("bytes_of_mut", r)

\* the reverse cast try_cast_ref::<B, A> of the reference a cast returned
TryCastRefBack ==
  /\ op = "try_cast_ref"
  /\ res.kind = "Ok"
  /\ op' = "try_cast_ref_back"
  /\ back' = try_cast_ref(B, A, res.addr)
  /\ UNCHANGED <<A, B, addr, len, res>>

TryCastMutBack ==
  /\ op = "try_cast_mut"
  /\ res.kind = "Ok"
  /\ op' = "try_cast_mut_back"
  /\ back' = try_cast_mut(B, A, res.addr)
  /\ UNCHANGED <<A, B, addr, len, res>>

Next ==
  \/ TryCast
  \/ Cast
  \/ TryCastRef
  \/ TryCastMut
  \/ CastRef
  \/ CastMut
  \/ TryCastSlice
  \/ TryCastSliceMut
  \/ CastSlice
  \/ CastSliceMut
  \/ TryFromBytes
  \/ TryFromBytesMut
  \/ FromBytes
  \/ FromBytesMut
  \/ BytesOf
  \/ BytesOfMut
  \/ TryCastRefBack
  \/ TryCastMutBack

Spec == Init /\ [][Next]_vars

\* --------------------------------------------------------- properties
SliceOps == {"try_cast_slice", "try_cast_slice_mut"}

RefOps == {"try_cast_ref", "try_cast_mut"}

FromBytesOps == {"try_from_bytes", "try_from_bytes_mut"}

\* the destination is stricter aligned than the source element type and the
\* input's start address is not a multiple of the destination alignment
Misaligned == align_of(B) > align_of(A) /\ addr % align_of(B) # 0

ExactlyOneZeroSized == (size_of(A) = 0) # (size_of(B) = 0)

\* C1: an Ok slice cast starts at the input's address and spans the same
\* number of bytes: len * size(A) = output len * size(B).
C1_SameSpan ==
  (op \in SliceOps /\ res.kind = "Ok") =>
    /\ res.addr = addr
    /\ len * size_of(A) = res.len * size_of(B)

C1_Witness ==
  /\ op = "try_cast_slice"
  /\ size_of(A) = 2
  /\ size_of(B) = 4
  /\ len = 4
  /\ res = Ok(addr, 2)

\* the four-step decision of the slice cast, in priority order
SliceDecision ==
  IF Misaligned
    THEN Err(TargetAlignmentGreaterAndInputNotAligned)
  ELSE IF size_of(A) = size_of(B)
    THEN Ok(addr, len)
  ELSE IF ExactlyOneZeroSized
    THEN Err(SizeMismatch)
  ELSE IF (len * size_of(A)) % size_of(B) = 0
    THEN Ok(addr, (len * size_of(A)) \div size_of(B))
  ELSE Err(OutputSliceWouldHaveSlop)

\* C2: try_cast_slice and try_cast_slice_mut both return the outcome of the
\* four-step decision (alignment, equal sizes, zero-sized mix, divisibility).
C2_FourSteps == op \in SliceOps => res = SliceDecision

C2_Witness ==
  /\ op = "try_cast_slice_mut"
  /\ size_of(A) = 2
  /\ size_of(B) = 4
  /\ len = 3
  /\ res = Err(OutputSliceWouldHaveSlop)

\* C3: a reference cast is Ok, at the input's address, iff the sizes are equal
\* and the address suffices for B; it reports the alignment error exactly when
\* B is stricter and the address is misaligned, and SizeMismatch exactly when
\* that is not so and the sizes differ.
C3_RefCast ==
  op \in RefOps =>
    /\ res.kind = "Ok" <=>
         (size_of(A) = size_of(B)
            /\ (align_of(B) <= align_of(A) \/ addr % align_of(B) = 0))
    /\ res.kind = "Ok" => res = Ok(addr, 1)
    /\ res = Err(TargetAlignmentGreaterAndInputNotAligned) <=> Misaligned
    /\ res = Err(SizeMismatch) <=> (~Misaligned /\ size_of(A) # size_of(B))

C3_Witness ==
  /\ op = "try_cast_mut"
  /\ size_of(A) # size_of(B)
  /\ res = Err(TargetAlignmentGreaterAndInputNotAligned)

\* C4 as claimed: in all six validating operations a misaligned input for a
\* stricter aligned destination is reported as the alignment error, whatever
\* the sizes.
C4_AlignmentFirstEverywhere ==
  (op \in RefOps \cup SliceOps \cup FromBytesOps /\ Misaligned) =>
    res = Err(TargetAlignmentGreaterAndInputNotAligned)

\* C4 as amended: the four cast operations test the alignment first; the
\* from-bytes operations test the length first, and report SizeMismatch for
\* a byte slice of the wrong length even when it is misaligned as well.
C4_AlignmentFirstInCasts ==
  /\ (op \in RefOps \cup SliceOps /\ Misaligned) =>
       res = Err(TargetAlignmentGreaterAndInputNotAligned)
  /\ (op \in FromBytesOps /\ len # size_of(B)) => res = Err(SizeMismatch)
  /\ (op \in FromBytesOps /\ len = size_of(B) /\ Misaligned) =>
       res = Err(TargetAlignmentGreaterAndInputNotAligned)

C4_Witness ==
  /\ op = "try_from_bytes"
  /\ Misaligned
  /\ len # size_of(B)
  /\ res = Err(SizeMismatch)

\* C5 as claimed: a slice cast between a zero-sized and a non-zero-sized
\* element type fails with SizeMismatch for every address and alignments.
C5_ZstAlwaysSizeMismatch ==
  (op \in SliceOps /\ ExactlyOneZeroSized) => res = Err(SizeMismatch)

\* C5 as amended: such a cast always fails, with the alignment error when
\* the destination is stricter aligned and the address is misaligned, and
\* with SizeMismatch otherwise.
C5_ZstAlwaysFails ==
  (op \in SliceOps /\ ExactlyOneZeroSized) =>
    res = IF Misaligned
            THEN Err(TargetAlignmentGreaterAndInputNotAligned)
            ELSE Err(SizeMismatch)

C5_Witness ==
  /\ op = "try_cast_slice"
  /\ size_of(A) = 0
  /\ size_of(B) # 0
  /\ Misaligned
  /\ res = Err(TargetAlignmentGreaterAndInputNotAligned)

\* C6: try_from_bytes and try_from_bytes_mut are Ok, at the slice's address,
\* iff the length is exactly size(T) and the address is a multiple of
\* align(T); otherwise the error is SizeMismatch or the alignment error.
C6_FromBytes ==
  op \in FromBytesOps =>
    /\ res.kind = "Ok" <=> (len = size_of(B) /\ addr % align_of(B) = 0)
    /\ res.kind = "Ok" => res = Ok(addr, 1)
    /\ res.kind # "Ok" =>
         /\ res.kind = "Err"
         /\ res.err \in {SizeMismatch, TargetAlignmentGreaterAndInputNotAligned}

C6_Witness ==
  /\ op = "try_from_bytes_mut"
  /\ len > size_of(B)
  /\ addr % align_of(B) = 0
  /\ res = Err(SizeMismatch)

\* what a thin fatal wrapper named s makes of the structured outcome r
Wrap(s, r) == IF r.kind = "Ok" THEN r ELSE something_went_wrong(s, r.err)

\* C7: every fatal entry point returns what its structured counterpart
\* returns on Ok and ends in something_went_wrong, with its own name and
\* the same error, on Err; no unreachable!() branch is reached.
C7_ThinWrappers ==
  /\ op = "cast" => res = Wrap("cast", try_cast(A, B))
  /\ op = "cast_ref" => res = Wrap("cast_ref", try_cast_ref(A, B, addr))
  /\ op = "cast_mut" => res = Wrap("cast_mut", try_cast_mut(A, B, addr))
  /\ op = "cast_slice" => res = Wrap("cast_slice", try_cast_slice(A, B, addr, len))
  /\ op = "cast_slice_mut" =>
       res = Wrap("cast_slice_mut", try_cast_slice_mut(A, B, addr, len))
  /\ op = "from_bytes" => res = Wrap("from_bytes", try_from_bytes(B, addr, len))
  /\ op = "from_bytes_mut" =>
       res = Wrap("from_bytes_mut", try_from_bytes_mut(B, addr, len))
  /\ op \in {"cast_ref", "cast_mut"} => res.kind # "Unreachable"

C7_Witness ==
  /\ op = "cast_ref"
  /\ align_of(A) >= align_of(B)
  /\ res = something_went_wrong("cast_ref", SizeMismatch)

\* C8: bytes_of and bytes_of_mut always return a byte view of exactly
\* size(T) bytes, never reaching unreachable!(); for a non-zero-sized T the
\* view starts at the address of the value.
C8_BytesOf ==
  op \in {"bytes_of", "bytes_of_mut"} =>
    /\ res.kind = "Ok"
    /\ res.len = size_of(A)
    /\ size_of(A) # 0 => res.addr = addr

C8_Witness ==
  /\ op = "bytes_of"
  /\ size_of(A) = 4
  /\ align_of(A) = 4
  /\ res = Ok(addr, 4)

\* C9: when a reference cast of a reference aligned for A is Ok, the reverse
\* cast of its result is Ok too and gives back the original address.
C9_RoundTrip ==
  (op \in {"try_cast_ref_back", "try_cast_mut_back"}
     /\ addr % align_of(A) = 0 /\ res.kind = "Ok") =>
    back = Ok(addr, 1)

C9_Witness ==
  /\ op = "try_cast_ref_back"
  /\ align_of(B) > align_of(A)
  /\ back = Ok(addr, 1)

IsPowerOfTwo(x) == \E k \in 0..x : x = Pow2(k)

\* C10: with power of two alignments and an input aligned for A, every Ok
\* result of the six reference and slice operations is at a multiple of the
\* destination type's alignment.
C10_OkIsAligned ==
  (/\ op \in RefOps \cup SliceOps \cup FromBytesOps
   /\ IsPowerOfTwo(align_of(A))
   /\ IsPowerOfTwo(align_of(B))
   /\ addr % align_of(A) = 0
   /\ res.kind = "Ok") =>
    res.addr % align_of(B) = 0

C10_Witness ==
  /\ op = "try_cast_slice_mut"
  /\ align_of(B) > align_of(A)
  /\ len > 0
  /\ res.kind = "Ok"
  /\ res.addr % align_of(B) = 0

====
